---- MODULE Spec2Model ----
(***************************************************************************)
(* Focus Pomodoro: the Home page (src/src/app/page.tsx), its category      *)
(* picker (CategorySelect, src/src/app/category/page.tsx) and the          *)
(* localStorage keys they share.                                           *)
(*                                                                         *)
(* A state of the model is a settled state of the React component: every   *)
(* queued state update has been rendered and every effect has run.  One    *)
(* action is one event (a click, an input change, one firing of the        *)
(* interval, a page load) together with the renders and effects it causes. *)
(* React is modelled as the production build runs it: a state updater is   *)
(* invoked once per update.                                                *)
(***************************************************************************)
EXTENDS Integers, Sequences, FiniteSets, TLC

(***************************************************************************)
(* Program constants                                                       *)
(***************************************************************************)
Modes == {"focus", "short", "long"}

DEFAULT_DURATIONS == [focus |-> 25, short |-> 5, long |-> 15]

\* durations[mode] * 60
SecondsPerMinute == 60

\* (completedFocusCount + 1) % 4
CycleLength == 4

\* Math.max(1, Math.min(180, ...))
MinMinutes == 1
MaxMinutes == 180

\* if (events.length > 1000) events = events.slice(events.length - 1000)
MaxEvents == 1000

(***************************************************************************)
(* Bounds of the model                                                     *)
(***************************************************************************)
\* Focus intervals a behaviour may complete on top of its initial history.
MaxCompleted == 8

\* Largest whole number of minutes typed into a duration input.
MaxTyped == 2

(***************************************************************************)
(* Strings.  A label is a sequence of characters; a character is named by  *)
(* an ASCII token.  "I_dotted" is U+0130, "i_dotless" is U+0131.           *)
(***************************************************************************)
Genel == <<"G", "e", "n", "e", "l">>
Calisma == <<"C_cedilla", "a", "l", "i_dotless", "s_cedilla", "m", "a">>
Yazilim == <<"Y", "a", "z", "i_dotless", "l", "i_dotless", "m">>
Okuma == <<"O", "k", "u", "m", "a">>

DEFAULT_CATEGORIES == <<Genel, Calisma, Yazilim, Okuma>>

WhiteSpace == {" "}

\* String.prototype.toLocaleLowerCase("tr") on one character: the Turkish
\* mapping sends I to dotless i and dotted I to i.
toLocaleLowerCaseTrChar(c) ==
    CASE c = "I" -> "i_dotless"
      [] c = "I_dotted" -> "i"
      [] c = "A" -> "a"
      [] c = "B" -> "b"
      [] c = "G" -> "g"
      [] c = "O" -> "o"
      [] c = "Y" -> "y"
      [] c = "C_cedilla" -> "c_cedilla"
      [] OTHER -> c

toLocaleLowerCaseTr(s) == [i \in 1..Len(s) |-> toLocaleLowerCaseTrChar(s[i])]

RECURSIVE trimStart(_)
trimStart(s) ==
    IF s # <<>> /\ Head(s) \in WhiteSpace THEN trimStart(Tail(s)) ELSE s

RECURSIVE trimEnd(_)
trimEnd(s) ==
    IF s # <<>> /\ s[Len(s)] \in WhiteSpace
    THEN trimEnd(SubSeq(s, 1, Len(s) - 1))
    ELSE s

\* String.prototype.trim
trim(s) == trimEnd(trimStart(s))

\* label.trim().toLocaleLowerCase("tr"): the key two labels are compared under
categoryKey(label) == toLocaleLowerCaseTr(trim(label))

Range(s) == {s[i] : i \in 1..Len(s)}

Max(a, b) == IF a >= b THEN a ELSE b
Min(a, b) == IF a <= b THEN a ELSE b

(***************************************************************************)
(* State                                                                   *)
(***************************************************************************)
VARIABLES
    durations,            \* useState<Durations>
    categories,           \* useState<string[]>
    selectedCategory,     \* useState<string>
    mode,                 \* useState<TimerMode>
    isRunning,            \* useState(false)
    completedFocusCount,  \* useLocalStorageNumber("fp:focus-streak")
    totalMinutes,         \* useLocalStorageNumber("fp:total-minutes")
    remainingSeconds,     \* useState<number>
    interval,             \* the intervals that are set, oldest first, each
                          \* as the render values c its callback closes
                          \* over; intervalRef.current is the last one
    ls,                   \* window.localStorage, by key
    now,                  \* Date.now() as last read
    completions,          \* history: focus countdowns that reached zero
    elapsed,              \* history: ticks since remainingSeconds was last
                          \* set to a full duration
    budget,               \* bound: focus intervals the behaviour may complete
    shortBreaks,          \* history: short breaks entered from focus since the
                          \* last long break was, three at most
    dayOffset,            \* useState(0) of the category page: the day shown,
                          \* 0 for today, -1 for yesterday
    quota,                \* "free": setItem stores the value; "exceeded":
                          \* setItem throws QuotaExceededError
    crashed               \* an effect threw and React unmounted Home

vars == <<durations, categories, selectedCategory, mode, isRunning,
          completedFocusCount, totalMinutes, remainingSeconds, interval,
          ls, now, completions, elapsed, budget, shortBreaks, dayOffset,
          quota, crashed>>

stats == <<completedFocusCount, totalMinutes, ls, now, completions>>
session == <<mode, isRunning, remainingSeconds, interval, elapsed>>
labels == <<categories, selectedCategory>>

(***************************************************************************)
(* localStorage values                                                     *)
(***************************************************************************)
\* window.localStorage.setItem throws
setItemThrows == quota = "exceeded"

\* String(value) of a number, and the raw text of the two counters
NumberText(n) == [kind |-> "number", val |-> n]
AbsentText == [kind |-> "absent", val |-> 0]

\* useLocalStorageNumber without its load effect
useLocalStorageNumberUnloaded(raw, initialValue) == initialValue

\* const parsed = raw ? Number(raw) : NaN;
\* if (Number.isFinite(parsed)) setValue(parsed)
useLocalStorageNumber(raw, initialValue) ==
    IF raw.kind = "number" THEN raw.val ELSE initialValue

\* JSON.stringify(durations)
DurationsText(d) == [kind |-> "object", val |-> d]

\* setDurations((prev) => ({ ...prev, ...parsed })) when raw parses to an object
loadDurations(raw) ==
    IF raw.kind = "object"
    THEN [m \in Modes |->
            IF m \in DOMAIN raw.val THEN raw.val[m] ELSE DEFAULT_DURATIONS[m]]
    ELSE DEFAULT_DURATIONS

\* the categories load effect without its filter
uniqueByKeyKeepAll(list, seen) == list

\* the filter of the categories load effect: keep the first label of each key
RECURSIVE uniqueByKey(_, _)
uniqueByKey(list, seen) ==
    IF list = <<>> THEN <<>>
    ELSE IF categoryKey(Head(list)) \in seen
         THEN uniqueByKey(Tail(list), seen)
         ELSE <<Head(list)>> \o
              uniqueByKey(Tail(list), seen \cup {categoryKey(Head(list))})

\* JSON.stringify(categories)
CategoriesText(list) == [kind |-> "array", val |-> list]

\* the categories load effect: merged with the defaults when raw is an array
loadCategories(raw) ==
    IF raw.kind = "array"
    THEN uniqueByKey(DEFAULT_CATEGORIES \o raw.val, {})
    ELSE DEFAULT_CATEGORIES

\* const stored = getItem("fp:category"); if (stored) setSelectedCategory(stored)
\* raw is <<>> (no item) or <<label>>
loadCategory(raw) ==
    IF raw # <<>> /\ raw[1] # <<>> THEN raw[1] ELSE DEFAULT_CATEGORIES[1]

\* The effect on [selectedCategory] left out
ensureSelectedNever(list, selected) == list

\* The effect on [selectedCategory]: append the selected label when no
\* category has its key
ensureSelected(list, selected) ==
    IF selected = <<>> THEN list
    ELSE IF \E i \in 1..Len(list) : categoryKey(list[i]) = categoryKey(selected)
         THEN list
         ELSE Append(list, selected)

(***************************************************************************)
(* Page load: Home mounts against the storage s, its load effects run, the *)
(* loaded values render and the persist effects write them back.  The      *)
(* value is the settled state, by variable.                                *)
(***************************************************************************)
Mount(s) ==
    LET d == loadDurations(s.durations)
        sel == loadCategory(s.category)
        cats == ensureSelected(loadCategories(s.categories), sel)
        streak == useLocalStorageNumber(s.streak, 0)
        total == useLocalStorageNumber(s.total, 0)
    IN  [durations |-> d,
         categories |-> cats,
         selectedCategory |-> sel,
         mode |-> "focus",
         isRunning |-> FALSE,
         completedFocusCount |-> streak,
         totalMinutes |-> total,
         remainingSeconds |-> d["focus"] * SecondsPerMinute,
         ls |-> [s EXCEPT !.durations = DurationsText(d),
                          !.categories = CategoriesText(cats),
                          !.category = <<sel>>,
                          !.streak = NumberText(streak),
                          !.total = NumberText(total)]]

\* The first load of a behaviour, at time t, against storage s that holds
\* the traces of k completed focus intervals.
InitAt(s, k, b, t) ==
    \E m \in {Mount(s)} :
        /\ durations = m.durations
        /\ categories = m.categories
        /\ selectedCategory = m.selectedCategory
        /\ mode = m.mode
        /\ isRunning = m.isRunning
        /\ completedFocusCount = m.completedFocusCount
        /\ totalMinutes = m.totalMinutes
        /\ remainingSeconds = m.remainingSeconds
        /\ interval = <<>>
        /\ ls = m.ls
        /\ now = t
        /\ completions = k
        /\ elapsed = 0
        /\ budget = k + b
        /\ shortBreaks = k % CycleLength
        /\ dayOffset = 0
        /\ quota = "free"
        /\ crashed = FALSE

\* The first load when every logged event took one unit of time
InitFrom(s, k, b) == InitAt(s, k, b, Len(s.events))

\* The user reloads the page: the component state is rebuilt from storage.
\* The persist effects of useLocalStorageNumber run in the first commit and
\* are not guarded: when setItem throws, Home is unmounted.
Reload ==
    \E m \in {Mount(ls)} :
        /\ durations' = m.durations
        /\ categories' = m.categories
        /\ selectedCategory' = m.selectedCategory
        /\ mode' = m.mode
        /\ isRunning' = m.isRunning
        /\ completedFocusCount' = m.completedFocusCount
        /\ totalMinutes' = m.totalMinutes
        /\ remainingSeconds' = m.remainingSeconds
        /\ interval' = <<>>
        /\ ls' = IF setItemThrows THEN ls ELSE m.ls
        /\ crashed' = setItemThrows
        /\ elapsed' = 0
        /\ UNCHANGED <<now, completions, budget, dayOffset, shortBreaks,
                       quota>>

(***************************************************************************)
(* Session engine                                                          *)
(***************************************************************************)
\* nextMode with the count taken before the interval that just ended
nextModeOffByOne(current, count) ==
    IF current = "focus"
    THEN (IF count % CycleLength = 0 THEN "long" ELSE "short")
    ELSE "focus"

\* nextMode going from the short break on to the long one
nextModeBreakAgain(current, count) ==
    IF current = "focus"
    THEN (IF (count + 1) % CycleLength = 0 THEN "long" ELSE "short")
    ELSE IF current = "short" THEN "long" ELSE "focus"

\* nextMode(current), reading completedFocusCount from the render it closes over
nextMode(current, count) ==
    IF current = "focus"
    THEN (IF (count + 1) % CycleLength = 0 THEN "long" ELSE "short")
    ELSE "focus"

\* The short breaks since the last long break, after the mode went from one
\* mode to another
breaksEntered(n, from, to) ==
    IF from # "focus" THEN n
    ELSE IF to = "long" THEN 0
    ELSE Min(n + 1, CycleLength - 1)

\* The values a render's functions close over
Render ==
    [mode |-> mode,
     durations |-> durations,
     selectedCategory |-> selectedCategory,
     completedFocusCount |-> completedFocusCount]

\* window.setInterval in the render c: one more interval, which
\* intervalRef.current names from now on
setInterval(timers, c) == Append(timers, c)

\* window.clearInterval(intervalRef.current): the interval set last is gone
clearInterval(timers) ==
    IF timers = <<>> THEN <<>> ELSE SubSeq(timers, 1, Len(timers) - 1)

\* setIsRunning(false): when isRunning was true, the cleanup of the effect
\* on [isRunning] runs and clears intervalRef.current
stopInterval(timers, running) ==
    IF running THEN clearInterval(timers) ELSE timers

\* handleStartPause starting the countdown over
handleStartPauseRestart ==
    /\ ~crashed
    /\ isRunning \/ mode # "focus" \/ completions < budget
    /\ isRunning' = ~isRunning
    /\ interval' = IF isRunning THEN clearInterval(interval)
                   ELSE setInterval(interval, Render)
    /\ remainingSeconds' =
         IF isRunning THEN remainingSeconds
         ELSE durations[mode] * SecondsPerMinute
    /\ elapsed' = IF isRunning THEN elapsed ELSE 0
    /\ UNCHANGED <<durations, labels, mode, stats, budget, dayOffset,
                   shortBreaks, quota, crashed>>

\* handleStartPause without the cleanup of the effect on [isRunning]
handleStartPauseLeak ==
    /\ ~crashed
    /\ isRunning \/ mode # "focus" \/ completions < budget
    /\ isRunning' = ~isRunning
    /\ interval' = IF isRunning THEN interval
                   ELSE setInterval(interval, Render)
    /\ UNCHANGED <<durations, labels, mode, remainingSeconds, stats, elapsed,
                   budget, dayOffset, shortBreaks, quota, crashed>>

\* handleStartPause: setIsRunning((r) => !r).  The effect on [isRunning] sets
\* an interval whose callback belongs to the render that turned isRunning on;
\* its cleanup clears the interval when isRunning turns off.
handleStartPause ==
    /\ ~crashed
    /\ isRunning \/ mode # "focus" \/ completions < budget
    /\ isRunning' = ~isRunning
    /\ interval' = IF isRunning THEN clearInterval(interval)
                   ELSE setInterval(interval, Render)
    /\ UNCHANGED <<durations, labels, mode, remainingSeconds, stats, elapsed,
                   budget, dayOffset, shortBreaks, quota, crashed>>

\* durations[mode] * 60
fullCountdown(d, m) == d[m] * SecondsPerMinute

\* handleReset without setIsRunning(false)
handleResetKeepRunning ==
    /\ ~crashed
    /\ remainingSeconds' = durations[mode] * SecondsPerMinute
    /\ elapsed' = 0
    /\ UNCHANGED <<durations, labels, mode, isRunning, interval, stats,
                   budget, dayOffset, shortBreaks, quota, crashed>>

\* handleReset without the cleanup of the effect on [isRunning]
handleResetLeak ==
    /\ ~crashed
    /\ isRunning' = FALSE
    /\ remainingSeconds' = durations[mode] * SecondsPerMinute
    /\ elapsed' = 0
    /\ UNCHANGED <<durations, labels, mode, interval, stats, budget,
                   dayOffset, shortBreaks, quota, crashed>>

\* handleReset
handleReset ==
    /\ ~crashed
    /\ isRunning' = FALSE
    /\ interval' = stopInterval(interval, isRunning)
    /\ remainingSeconds' = fullCountdown(durations, mode)
    /\ elapsed' = 0
    /\ UNCHANGED <<durations, labels, mode, stats, budget, dayOffset,
                   shortBreaks, quota, crashed>>

\* handleSkip without setIsRunning(false)
handleSkipKeepRunning ==
    LET nm == nextMode(mode, completedFocusCount)
    IN  /\ ~crashed
        /\ mode' = nm
        /\ remainingSeconds' = durations[nm] * SecondsPerMinute
        /\ elapsed' = 0
        /\ shortBreaks' = breaksEntered(shortBreaks, mode, nm)
        /\ UNCHANGED <<durations, labels, isRunning, interval, stats, budget,
                       dayOffset, quota, crashed>>

\* handleSkip counting the skipped focus interval as completed
handleSkipCounting ==
    LET nm == nextMode(mode, completedFocusCount)
        count == IF mode = "focus" THEN completedFocusCount + 1
                 ELSE completedFocusCount
    IN  /\ ~crashed
        /\ isRunning' = FALSE
        /\ interval' = stopInterval(interval, isRunning)
        /\ mode' = nm
        /\ remainingSeconds' = fullCountdown(durations, nm)
        /\ elapsed' = 0
        /\ completedFocusCount' = count
        /\ ls' = [ls EXCEPT !.streak = NumberText(count)]
        /\ shortBreaks' = breaksEntered(shortBreaks, mode, nm)
        /\ UNCHANGED <<durations, labels, totalMinutes, now, completions,
                       budget, dayOffset, quota, crashed>>

\* handleSkip; the effect on [durations, mode] then sets remainingSeconds again
handleSkip ==
    LET nm == nextMode(mode, completedFocusCount)
    IN  /\ ~crashed
        /\ isRunning' = FALSE
        /\ interval' = stopInterval(interval, isRunning)
        /\ mode' = nm
        /\ remainingSeconds' = fullCountdown(durations, nm)
        /\ elapsed' = 0
        /\ shortBreaks' = breaksEntered(shortBreaks, mode, nm)
        /\ UNCHANGED <<durations, labels, stats, budget, dayOffset, quota,
                       crashed>>

\* addCategoryMinutes overwriting the entry
addCategoryMinutesOverwrite(map, label, minutes) ==
    (label :> Max(0, minutes)) @@ map

\* map[label] = Math.max(0, (Number(map[label]) || 0) + durations.focus)
addCategoryMinutes(map, label, minutes) ==
    LET current == IF label \in DOMAIN map THEN map[label] ELSE 0
    IN  (label :> Max(0, current + minutes)) @@ map

\* pushEvent keeping the first 1000
pushEventKeepOldest(events, newEvent) ==
    LET pushed == Append(events, newEvent)
    IN  IF Len(pushed) > MaxEvents THEN SubSeq(pushed, 1, MaxEvents) ELSE pushed

\* events.push(newEvent); keep the last 1000
pushEvent(events, newEvent) ==
    LET pushed == Append(events, newEvent)
    IN  IF Len(pushed) > MaxEvents
        THEN SubSeq(pushed, Len(pushed) - MaxEvents + 1, Len(pushed))
        ELSE pushed

\* onFinish crediting the length of the break instead
focusMinutesOfBreak(c) == c.durations["short"] + c.durations["long"]

\* durations.focus, as onFinish reads it in the render c
focusMinutes(c) == c.durations["focus"]

\* recordCompletion run twice for one completion
recordCompletionTwice(s, c, ts) ==
    LET label == trim(c.selectedCategory)
        minutes == focusMinutes(c)
        event == [ts |-> ts, category |-> label, minutes |-> minutes]
    IN  [s EXCEPT
           !.categoryMinutes =
               addCategoryMinutes(addCategoryMinutes(@, label, minutes),
                                  label, minutes),
           !.events = pushEvent(pushEvent(@, event), event)]

\* The storage after onFinish of a focus interval, run in the render c at time ts
recordCompletion(s, c, ts) ==
    LET label == trim(c.selectedCategory)
        minutes == focusMinutes(c)
    IN  [s EXCEPT
           !.categoryMinutes = addCategoryMinutes(@, label, minutes),
           !.events = pushEvent(@, [ts |-> ts, category |-> label,
                                    minutes |-> minutes])]

\* The interval callback returning prev when prev > 1
tickDownHold ==
    /\ ~crashed
    /\ UNCHANGED vars

\* The callback finishing at prev <= 0 only
lastSecondLate(prev) == prev <= 0

\* if (prev <= 1): the tick that ends the countdown
lastSecond(prev) == prev <= 1

\* The interval callback when prev > 1
tickDown ==
    /\ ~crashed
    /\ remainingSeconds' = remainingSeconds - 1
    /\ elapsed' = elapsed + 1
    /\ UNCHANGED <<durations, labels, mode, isRunning, interval, stats,
                   budget, dayOffset, shortBreaks, quota, crashed>>

\* onFinish without the effect on [durations, mode]: remainingSeconds is what
\* onFinish itself sets, from the durations of the render c
onFinishStale(c) ==
    LET nm == nextMode(c.mode, c.completedFocusCount)
        focus == c.mode = "focus"
        count == IF focus THEN completedFocusCount + 1 ELSE completedFocusCount
        total == IF focus THEN totalMinutes + focusMinutes(c)
                 ELSE totalMinutes
        ts == now + 1
        recorded == IF focus THEN recordCompletion(ls, c, ts) ELSE ls
    IN  /\ ~crashed
        /\ isRunning' = FALSE
        /\ interval' = clearInterval(interval)
        /\ completedFocusCount' = count
        /\ totalMinutes' = total
        /\ ls' = IF setItemThrows THEN ls
                 ELSE [recorded EXCEPT !.streak = NumberText(count),
                                       !.total = NumberText(total)]
        /\ crashed' = (focus /\ setItemThrows)
        /\ mode' = nm
        /\ remainingSeconds' = c.durations[nm] * SecondsPerMinute
        /\ now' = IF focus THEN ts ELSE now
        /\ completions' = IF focus THEN completions + 1 ELSE completions
        /\ elapsed' = 0
        /\ shortBreaks' = breaksEntered(shortBreaks, c.mode, nm)
        /\ UNCHANGED <<durations, labels, budget, dayOffset, quota>>

\* The interval callback when prev <= 1: clearInterval, setIsRunning(false),
\* onFinish() of the render c the callback closes over.  The counters are
\* updated functionally and persisted by their effects; the mode changes, so
\* the effect on [durations, mode] sets remainingSeconds from the durations
\* of the new render.  When setItem throws, the writes of the map and of the
\* log are caught inside onFinish, and the persist effect of the counter,
\* which is not guarded, unmounts Home.
onFinish(c) ==
    LET nm == nextMode(c.mode, c.completedFocusCount)
        focus == c.mode = "focus"
        count == IF focus THEN completedFocusCount + 1 ELSE completedFocusCount
        total == IF focus THEN totalMinutes + focusMinutes(c)
                 ELSE totalMinutes
        ts == now + 1
        recorded == IF focus THEN recordCompletion(ls, c, ts) ELSE ls
    IN  /\ ~crashed
        /\ isRunning' = FALSE
        /\ interval' = clearInterval(interval)
        /\ completedFocusCount' = count
        /\ totalMinutes' = total
        /\ ls' = IF setItemThrows THEN ls
                 ELSE [recorded EXCEPT !.streak = NumberText(count),
                                       !.total = NumberText(total)]
        /\ crashed' = (focus /\ setItemThrows)
        /\ mode' = nm
        /\ remainingSeconds' =
             IF nm # mode THEN fullCountdown(durations, nm) ELSE 0
        /\ now' = IF focus THEN ts ELSE now
        /\ completions' = IF focus THEN completions + 1 ELSE completions
        /\ elapsed' = 0
        /\ shortBreaks' = breaksEntered(shortBreaks, c.mode, nm)
        /\ UNCHANGED <<durations, labels, budget, dayOffset, quota>>

\* One firing of an interval set by the effect on [isRunning]
Tick ==
    \E i \in 1..Len(interval) :
        IF lastSecond(remainingSeconds) THEN onFinish(interval[i])
        ELSE tickDown

(***************************************************************************)
(* Settings: the three duration inputs                                     *)
(***************************************************************************)
\* Number(e.target.value || 0); the text of a number input is empty (<<>>)
\* or a number (<<n>>)
inputNumber(text) == IF text = <<>> THEN 0 ELSE text[1]

\* Math.max(1, Math.min(180, n))
clampMinutes(n) == Max(MinMinutes, Min(MaxMinutes, n))

\* setDurations without the effect on [durations, mode]
setDurationsKeepCountdown(m, text) ==
    LET d == [durations EXCEPT ![m] = clampMinutes(inputNumber(text))]
    IN  /\ ~crashed
        /\ durations' = d
        /\ ls' = IF setItemThrows THEN ls
                 ELSE [ls EXCEPT !.durations = DurationsText(d)]
        /\ crashed' = setItemThrows
        /\ UNCHANGED <<labels, session, completedFocusCount, totalMinutes,
                       now, completions, budget, dayOffset, shortBreaks,
                       quota>>

\* setDurations stopping a running timer
setDurationsStop(m, text) ==
    LET d == [durations EXCEPT ![m] = clampMinutes(inputNumber(text))]
    IN  /\ ~crashed
        /\ durations' = d
        /\ remainingSeconds' = fullCountdown(d, mode)
        /\ isRunning' = FALSE
        /\ interval' = stopInterval(interval, isRunning)
        /\ ls' = IF setItemThrows THEN ls
                 ELSE [ls EXCEPT !.durations = DurationsText(d)]
        /\ crashed' = setItemThrows
        /\ elapsed' = 0
        /\ UNCHANGED <<labels, mode, completedFocusCount, totalMinutes, now,
                       completions, budget, dayOffset, shortBreaks, quota>>

\* onChange of the input of mode m: setDurations({ ...durations, [m]: ... }).
\* The new object is persisted, and the effect on [durations, mode] sets
\* remainingSeconds.  An interval that is running keeps its callback.  The
\* persist effect is not guarded: when setItem throws, Home is unmounted.
setDurations(m, text) ==
    LET d == [durations EXCEPT ![m] = clampMinutes(inputNumber(text))]
    IN  /\ ~crashed
        /\ durations' = d
        /\ remainingSeconds' = fullCountdown(d, mode)
        /\ ls' = IF setItemThrows THEN ls
                 ELSE [ls EXCEPT !.durations = DurationsText(d)]
        /\ crashed' = setItemThrows
        /\ elapsed' = 0
        /\ UNCHANGED <<labels, mode, isRunning, interval, completedFocusCount,
                       totalMinutes, now, completions, budget, dayOffset,
                       shortBreaks, quota>>

(***************************************************************************)
(* Categories: CategorySelect and its callbacks                            *)
(***************************************************************************)
\* handleCreateCategory without the test for an existing key
handleCreateCategoryAlways(prev, newLabel) ==
    IF trim(newLabel) = <<>> THEN prev ELSE Append(prev, trim(newLabel))

\* handleCreateCategory(newLabel): the categories after the functional update
handleCreateCategory(prev, newLabel) ==
    LET trimmed == trim(newLabel)
        keyNew == toLocaleLowerCaseTr(trimmed)
    IN  IF trimmed = <<>> THEN prev
        ELSE IF \E i \in 1..Len(prev) : categoryKey(prev[i]) = keyNew
             THEN prev
             ELSE Append(prev, trimmed)

\* shouldShowCreate for the typed query
shouldShowCreate(options, query) ==
    LET queryTrimmed == trim(query)
        queryLc == toLocaleLowerCaseTr(queryTrimmed)
        hasExactMatch == \E i \in 1..Len(options) :
                            toLocaleLowerCaseTr(options[i]) = queryLc
    IN  Len(queryTrimmed) > 0 /\ ~hasExactMatch

\* The values of the items CategorySelect offers while the query is typed
selectItems(options, query) ==
    Range(options) \cup
    (IF shouldShowCreate(options, query) THEN {trim(query)} ELSE {})

\* handleSelectChange(nextValue): onCreateOption when no option has the value,
\* then onChange.  The effect on [selectedCategory] and the two persist
\* effects follow.  The write of the list is guarded, the write of the
\* selected label is not: when setItem throws, a changed selection unmounts
\* Home.
handleSelectChange(nextValue) ==
    LET exists == nextValue \in Range(categories)
        created == IF exists THEN categories
                   ELSE handleCreateCategory(categories, nextValue)
    IN  \E cats \in {IF nextValue # selectedCategory
                      THEN ensureSelected(created, nextValue)
                      ELSE created} :
        /\ ~crashed
        /\ selectedCategory' = nextValue
        /\ categories' = cats
        /\ ls' = IF setItemThrows THEN ls
                 ELSE [ls EXCEPT !.categories = CategoriesText(cats),
                                 !.category = <<nextValue>>]
        /\ crashed' = (setItemThrows /\ nextValue # selectedCategory)
        /\ UNCHANGED <<durations, session, completedFocusCount, totalMinutes,
                       now, completions, budget, dayOffset, shortBreaks,
                       quota>>

(***************************************************************************)
(* Storage a behaviour starts from                                         *)
(***************************************************************************)
\* The storage left by a session that set the durations to d and completed k
\* focus intervals of d.focus minutes under the first default category.
HistoryStorage(d, k) ==
    [durations |-> DurationsText(d),
     category |-> <<Genel>>,
     categories |-> CategoriesText(DEFAULT_CATEGORIES),
     streak |-> NumberText(k),
     total |-> NumberText(k * d["focus"]),
     categoryMinutes |-> IF k = 0 THEN <<>>
                         ELSE (Genel :> k * d["focus"]),
     events |-> [i \in 1..k |-> [ts |-> i, category |-> Genel,
                                 minutes |-> d["focus"]]]]

\* The storage of a first visit
EmptyStorage ==
    [durations |-> AbsentText,
     category |-> <<>>,
     categories |-> AbsentText,
     streak |-> AbsentText,
     total |-> AbsentText,
     categoryMinutes |-> <<>>,
     events |-> <<>>]

(***************************************************************************)
(* SpecCycle: the session engine with the settings left alone.  The page   *)
(* is loaded on a first visit (25/5/15) or after the durations were set to *)
(* one typed value each; the user starts, pauses, resets and skips.        *)
(***************************************************************************)
CycleDurations ==
    {DEFAULT_DURATIONS} \cup
    {[focus |-> f, short |-> 1, long |-> b] : f \in 1..MaxTyped, b \in 1..MaxTyped}

InitCycle ==
    \/ InitFrom(EmptyStorage, 0, MaxCompleted)
    \/ \E d \in CycleDurations : InitFrom(HistoryStorage(d, 0), 0, MaxCompleted)

NextCycle ==
    \/ handleStartPause
    \/ handleReset
    \/ handleSkip
    \/ Tick

SpecCycle == InitCycle /\ [][NextCycle]_vars

(***************************************************************************)
(* Spec: every operation of the Home page.  The page is loaded after the   *)
(* durations were set to one minute each and before any interval was       *)
(* completed; the user clears duration inputs and picks or creates a       *)
(* label.  SpecSettings types other durations.                             *)
(***************************************************************************)
\* Focus intervals a behaviour of Spec may complete.
MaxRecorded == 3

OneMinute == [focus |-> 1, short |-> 1, long |-> 1]

\* What the user types into a duration input: nothing, or a number
TypedMinutes == {<<>>, <<MaxTyped>>}

\* What the user types into the search box of CategorySelect
TypedQueries == {<<>>, <<" ", "A", " ">>}

\* The existing options the user picks
PickedOptions == {Genel, <<"A">>}

Init == InitFrom(HistoryStorage(OneMinute, 0), 0, MaxRecorded)

ClearDuration == \E m \in Modes : setDurations(m, <<>>)

SelectCategory ==
    \E query \in TypedQueries :
        \E v \in selectItems(categories, query) :
            /\ v \in PickedOptions
            /\ handleSelectChange(v)

Next ==
    \/ handleStartPause
    \/ handleReset
    \/ handleSkip
    \/ Tick
    \/ ClearDuration
    \/ SelectCategory
    \/ Reload

Spec == Init /\ [][Next]_vars

(***************************************************************************)
(* SpecSettings: the session engine while the user edits the durations.    *)
(* The page is loaded after three focus intervals of one minute, so that   *)
(* the next break is the long one and the one after it a short one.        *)
(***************************************************************************)
\* Focus intervals a behaviour of SpecSettings may complete.
MaxEdited == 1

InitSettings == InitFrom(HistoryStorage(OneMinute, 3), 3, MaxEdited)

SetDuration == \E m \in Modes : \E text \in TypedMinutes : setDurations(m, text)

NextSettings ==
    \/ handleStartPause
    \/ handleReset
    \/ handleSkip
    \/ Tick
    \/ SetDuration

SpecSettings == InitSettings /\ [][NextSettings]_vars

(***************************************************************************)
(* SpecCap: the event log at its cap.  The page is loaded on a first visit *)
(* or after 999 focus intervals of one minute; the user runs the timer and *)
(* picks or creates a label.  Breaks are counted down; skips, which leave  *)
(* the log alone, are left to the other specifications.                    *)
(***************************************************************************)
\* Focus intervals a behaviour of SpecCap may complete.
MaxAppended == 2

InitCap ==
    \E k \in {0, MaxEvents - 1} :
        InitFrom(HistoryStorage(OneMinute, k), k, MaxAppended)

NextCap ==
    \/ handleStartPause
    \/ handleReset
    \/ Tick
    \/ SelectCategory

SpecCap == InitCap /\ [][NextCap]_vars

(***************************************************************************)
(* SpecLoad: the durations against any stored content.  The page is loaded *)
(* on storage whose "fp:durations" item is absent, is not JSON, or is an   *)
(* object that gives some of the modes a number; the user reloads, edits   *)
(* the durations, resets and skips.                                        *)
(***************************************************************************)
MalformedText == [kind |-> "malformed", val |-> 0]

\* Numbers a stored object or a duration input may hold
AnyMinutes == {MinMinutes - 1, MinMinutes, MaxMinutes, MaxMinutes + 1}

StoredDurations ==
    {AbsentText, MalformedText} \cup
    {DurationsText(d) : d \in UNION {[S -> AnyMinutes] : S \in SUBSET Modes}}

InitLoad ==
    \E raw \in StoredDurations :
        InitFrom([EmptyStorage EXCEPT !.durations = raw], 0, 0)

TypeDuration ==
    \E m \in Modes :
        \E text \in {<<>>} \cup {<<n>> : n \in AnyMinutes} : setDurations(m, text)

NextLoad ==
    \/ Reload
    \/ TypeDuration
    \/ handleReset
    \/ handleSkip

SpecLoad == InitLoad /\ [][NextLoad]_vars

(***************************************************************************)
(* SpecLabels: the categories against any stored content.  The page is     *)
(* loaded on storage whose "fp:categories" item is absent, is not JSON, or *)
(* is an array of labels, and whose "fp:category" item is absent or a      *)
(* label; the user reloads and picks or creates labels.                    *)
(***************************************************************************)
genel == <<"g", "e", "n", "e", "l">>

StoredLabels ==
    {<<>>, <<" ">>, genel, <<" ", "A">>, <<"I">>, <<"i_dotless">>}

StoredCategories ==
    {AbsentText, MalformedText, CategoriesText(<<>>),
     CategoriesText(<<genel, <<"i_dotless">> >>),
     CategoriesText(<<<<" ", "A">>, <<"A">>, <<"I">> >>)}

LabelQueries ==
    {<<>>, <<" ">>, <<" ", "A", " ">>, <<"a">>, <<"I">>, <<"I_dotted">>, genel}

InitLabels ==
    \E cats \in StoredCategories :
        \E cat \in {<<>>} \cup {<<l>> : l \in StoredLabels} :
            InitFrom([EmptyStorage EXCEPT !.categories = cats,
                                          !.category = cat], 0, 0)

PickCategory ==
    \E query \in LabelQueries :
        \E v \in selectItems(categories, query) : handleSelectChange(v)

NextLabels ==
    \/ Reload
    \/ PickCategory

SpecLabels == InitLabels /\ [][NextLabels]_vars

(***************************************************************************)
(* SpecQuota: every operation of the Home page while localStorage may      *)
(* refuse writes.  The page is loaded after the durations were set to one  *)
(* minute each; the storage fills up (another tab, private browsing) and   *)
(* is freed again at any time.                                             *)
(***************************************************************************)
\* Focus intervals a behaviour of SpecQuota may complete.
MaxFailing == 1

InitQuota == InitFrom(HistoryStorage(OneMinute, 0), 0, MaxFailing)

\* The origin's quota is used up: every setItem throws from now on
StorageFills ==
    /\ quota = "free"
    /\ quota' = "exceeded"
    /\ UNCHANGED <<durations, labels, session, stats, budget, dayOffset,
                   shortBreaks, crashed>>

\* Space is freed: setItem stores again
StorageFrees ==
    /\ quota = "exceeded"
    /\ quota' = "free"
    /\ UNCHANGED <<durations, labels, session, stats, budget, dayOffset,
                   shortBreaks, crashed>>

NextQuota ==
    \/ handleStartPause
    \/ handleReset
    \/ handleSkip
    \/ Tick
    \/ ClearDuration
    \/ SelectCategory
    \/ Reload
    \/ StorageFills
    \/ StorageFrees

SpecQuota == InitQuota /\ [][NextQuota]_vars

(***************************************************************************)
(* SpecMalformed: loads of storage that something else has written to.     *)
(* The page is loaded on a first visit; an item is then overwritten with a *)
(* value the page would not write (text that is not JSON, JSON of another  *)
(* shape, an object whose fields are not durations, a counter that is not  *)
(* a number) and the page is reloaded.  No operation of this behaviour     *)
(* changes a duration, a counter or the categories.                        *)
(***************************************************************************)
\* JSON that parses to a number, a string, a boolean or null
ScalarText == [kind |-> "scalar", val |-> 0]

\* A counter item that Number() turns into NaN
NonNumericText == [kind |-> "text", val |-> 0]

\* Field values that are not durations
NoMinutes == {MinMinutes - 1, MaxMinutes + 1}

MalformedDurations ==
    {MalformedText, ScalarText} \cup
    {DurationsText(d) :
        d \in UNION {[S -> NoMinutes] : S \in SUBSET Modes \ {{}}}}

MalformedItems ==
    {[ls EXCEPT !.durations = raw] : raw \in MalformedDurations} \cup
    {[ls EXCEPT !.streak = NonNumericText], [ls EXCEPT !.total = NonNumericText],
     [ls EXCEPT !.categories = MalformedText],
     [ls EXCEPT !.categories = ScalarText]}

InitMalformed == InitFrom(EmptyStorage, 0, 0)

StorageCorrupted ==
    /\ ls' \in MalformedItems
    /\ UNCHANGED <<durations, labels, session, completedFocusCount,
                   totalMinutes, now, completions, budget, dayOffset,
                   shortBreaks, quota, crashed>>

NextMalformed ==
    \/ StorageCorrupted
    \/ Reload
    \/ handleReset
    \/ handleSkip

SpecMalformed == InitMalformed /\ [][NextMalformed]_vars

(***************************************************************************)
(* Claims                                                                  *)
(***************************************************************************)
Events == ls.events
CategoryMinutes == ls.categoryMinutes

\* C1 (SpecCycle, completedFocusCount = 0 at the start): the n-th completed
\* focus interval is followed by the long break exactly when n mod 4 = 0,
\* and by the short break otherwise.
C1_LongBreakEveryFourth ==
    [][completions' = completions + 1 =>
         mode' = IF completions' % 4 = 0 THEN "long" ELSE "short"]_vars

\* The eighth completed focus interval has led to the second long break.
C1_Witness ==
    completions = 8 /\ completedFocusCount = 8 /\ mode = "long"

\* A focus countdown reaches zero while running: the interval fires in
\* focus mode with at most one second left.
FocusReachesZero == Tick /\ mode = "focus" /\ remainingSeconds <= 1

\* C2 (Spec): a focus countdown that reaches zero while running appends
\* exactly one event and adds exactly 1 to completedFocusCount; no other
\* step changes the event log or completedFocusCount.
C2_RecordedExactlyOnce ==
    [][IF FocusReachesZero
       THEN /\ Len(Events') = Len(Events) + 1
            /\ SubSeq(Events', 1, Len(Events)) = Events
            /\ completedFocusCount' = completedFocusCount + 1
       ELSE /\ Events' = Events
            /\ completedFocusCount' = completedFocusCount]_vars

\* Two focus intervals were completed and recorded, with a break completed
\* by countdown in between.
C2_Witness ==
    /\ completions = 2
    /\ Len(Events) = 2
    /\ completedFocusCount = 2
    /\ mode = "short"

\* C3 (Spec): skip, in any mode and whether running or paused, leaves
\* completedFocusCount, totalMinutes, CategoryMinutes and the event log
\* unchanged.
C3_SkipKeepsStatistics ==
    [][handleSkip =>
         UNCHANGED <<completedFocusCount, totalMinutes, CategoryMinutes,
                     Events>>]_vars

\* The fourth focus interval was skipped after three were completed: the
\* long break is reached with the statistics of the three.
C3_Witness ==
    /\ mode = "long"
    /\ completions = 3
    /\ completedFocusCount = 3
    /\ totalMinutes = 3
    /\ Len(Events) = 3

\* C4 (SpecCycle): counted from a full countdown (a reset, a skip, a load or
\* a completed interval), the tick number durations[mode]*60 is the one that
\* takes remainingSeconds from 1 to 0 and it changes the mode; every earlier
\* tick only decrements remainingSeconds and leaves the mode alone.
C4_TicksToZero ==
    [][Tick =>
         IF elapsed + 1 = durations[mode] * 60
         THEN remainingSeconds = 1 /\ mode' # mode /\ elapsed' = 0
         ELSE /\ elapsed + 1 < durations[mode] * 60
              /\ mode' = mode
              /\ remainingSeconds' = remainingSeconds - 1
              /\ remainingSeconds' > 0]_vars

\* The long break of 15 minutes is one tick from its end, 899 ticks after
\* it began.
C4_Witness ==
    /\ mode = "long"
    /\ isRunning
    /\ durations["long"] = 15
    /\ elapsed = 899
    /\ remainingSeconds = 1

\* C7 (SpecCycle, totalMinutes = 0 at the start, focus duration constant):
\* after n completed focus intervals totalMinutes = n * durations.focus,
\* whatever was skipped, paused or reset in between; 4 intervals of 25
\* minutes give 100.
C7_TotalIsSumOfFocusMinutes ==
    /\ totalMinutes = completions * durations["focus"]
    /\ (completions = 4 /\ durations["focus"] = 25 => totalMinutes = 100)

\* Four focus intervals of 25 minutes were completed.
C7_Witness ==
    /\ completions = 4
    /\ durations = DEFAULT_DURATIONS
    /\ totalMinutes = 100
    /\ mode = "long"

\* C8 (SpecSettings): an edit that changes the duration of the current mode
\* sets remainingSeconds to the new duration * 60 at once.
C8_EditRestartsCountdown ==
    [][SetDuration /\ durations'[mode] # durations[mode] =>
         remainingSeconds' = durations'[mode] * 60]_vars

\* The interval was started with one minute for the current mode, the
\* duration was then changed, and the countdown shows the full new duration.
C8_Witness ==
    /\ isRunning
    /\ interval[1].durations[mode] = 1
    /\ durations[mode] = MaxTyped
    /\ remainingSeconds = MaxTyped * 60
    /\ mode = "long"

\* The minutes of the events of category c among events[lo..hi]
RECURSIVE loggedMinutes(_, _, _, _)
loggedMinutes(events, c, lo, hi) ==
    IF lo > hi THEN 0
    ELSE IF lo = hi
         THEN (IF events[lo].category = c THEN events[lo].minutes ELSE 0)
         ELSE loggedMinutes(events, c, lo, (lo + hi) \div 2)
              + loggedMinutes(events, c, (lo + hi) \div 2 + 1, hi)

\* Replaying the log for category c
Replayed(c) == loggedMinutes(Events, c, 1, Len(Events))

\* CategoryMinutes[c], an absent entry counting as 0
Cached(c) == IF c \in DOMAIN CategoryMinutes THEN CategoryMinutes[c] ELSE 0

RecordedCategories ==
    DOMAIN CategoryMinutes \cup {Events[i].category : i \in 1..Len(Events)}

C6_OldestEvicted ==
    [][FocusReachesZero =>
         /\ Len(Events') >= 1
         /\ Len(Events') <= 1000
         /\ Events'[Len(Events')].ts = now'
         /\ \A i \in 1..Len(Events) : Events[i].ts < now'
         /\ IF Len(Events) = 1000
            THEN Events' = Append(Tail(Events), Events'[Len(Events')])
            ELSE Events' = Append(Events, Events'[Len(Events')])]_vars

\* The 1001st event was appended: the log holds the events 2..1001 in
\* their order.
C6_Witness ==
    /\ completions = 1001
    /\ Len(Events) = 1000
    /\ \A i \in 1..1000 : Events[i].ts = i + 1

\* C9 (SpecLoad): in every reachable state each of the three durations is
\* an integer in [1,180], whatever the stored durations held when the page
\* was loaded and whatever was typed into a duration input.
C9_DurationsInRange ==
    \A m \in Modes : durations[m] \in 1..180

hasKey(list, label) ==
    \E i \in 1..Len(list) : categoryKey(list[i]) = categoryKey(label)

\* C10 (SpecLabels): in every settled state the selected category has the
\* key (trimmed, lower-cased for the Turkish locale) of a member of the
\* category list, and the list that was stored holds it too.
C10_SelectedIsMember ==
    /\ hasKey(categories, selectedCategory)
    /\ ls.categories.kind = "array"
    /\ ls.category # <<>>
    /\ hasKey(ls.categories.val, ls.category[1])

\* The selected label came from storage untrimmed, no category had its key,
\* and it was inserted as the last category.
C10_Witness ==
    /\ selectedCategory = <<" ", "A">>
    /\ Len(categories) = Len(DEFAULT_CATEGORIES) + 1
    /\ categories[Len(categories)] = <<" ", "A">>

\* The members of list that have the key of label
keyCount(list, label) ==
    Cardinality({i \in 1..Len(list) : categoryKey(list[i]) = categoryKey(label)})

\* C11 (SpecLabels): selecting a label whose key no category has appends it
\* once; selecting a label whose key a category has leaves the list as it
\* is; after either, and after a reload, the list and the stored list hold
\* the selected label's key exactly once.
C11_SelectInsertsOnce ==
    [][(PickCategory \/ Reload) =>
         /\ keyCount(categories', selectedCategory') = 1
         /\ IF hasKey(categories, selectedCategory')
            THEN categories' = categories
            ELSE categories' = Append(categories, selectedCategory')
         /\ ls'.categories = CategoriesText(categories')]_vars

\* The label "A" was created from the query " A " on a first visit.
C11_Witness ==
    /\ selectedCategory = <<"A">>
    /\ categories = DEFAULT_CATEGORIES \o << <<"A">> >>
    /\ ls.categories = CategoriesText(categories)

\* C12 (SpecQuota): a write to localStorage that fails is swallowed, for
\* every key: Home never ends up unmounted by an error.
C12_WriteFailureSwallowed == ~crashed

\* C13 (SpecMalformed): a load that finds a malformed value at a key gives
\* the state of a load that finds nothing there: the durations 25/5/15, both
\* counters 0 and the default categories, without an error.
C13_MalformedLoadsDefaults ==
    /\ durations = DEFAULT_DURATIONS
    /\ completedFocusCount = 0
    /\ totalMinutes = 0
    /\ categories = DEFAULT_CATEGORIES
    /\ ~crashed

\* C14 (SpecSettings): reset in any state sets remainingSeconds to
\* durations[mode]*60 and isRunning to false, stops the ticks, and leaves the
\* mode, the durations, both counters, the category minutes and the event
\* log unchanged.
C14_ResetFrame ==
    [][handleReset =>
         /\ remainingSeconds' = durations[mode] * 60
         /\ isRunning' = FALSE
         /\ interval' = <<>>
         /\ UNCHANGED <<mode, durations, completedFocusCount, totalMinutes,
                        CategoryMinutes, Events>>]_vars

\* The long break was reset, or is untouched, with its duration edited.
C14_Witness ==
    /\ mode = "long"
    /\ ~isRunning
    /\ durations["long"] = MaxTyped
    /\ remainingSeconds = MaxTyped * 60
    /\ elapsed = 0
    /\ interval = <<>>

\* C15 (Spec): start/pause can be invoked whenever Home is mounted and only
\* toggles isRunning: the mode, remainingSeconds, the durations, both
\* counters, the category minutes and the event log are unchanged, so a
\* paused countdown resumes from the remainingSeconds it was paused at.
C15_StartPauseFrame ==
    /\ [](~crashed /\ completions < budget => ENABLED handleStartPause)
    /\ [][handleStartPause =>
           /\ isRunning' = ~isRunning
           /\ UNCHANGED <<mode, remainingSeconds, durations,
                          completedFocusCount, totalMinutes, CategoryMinutes,
                          Events>>]_vars

\* A countdown runs under the label "A" that was picked before it was
\* started or while it was paused, with seconds already counted.
C15_Witness ==
    /\ isRunning
    /\ interval # <<>>
    /\ interval[1].selectedCategory = <<"A">>
    /\ elapsed > 0
    /\ remainingSeconds = durations[mode] * 60 - elapsed

\* C16 (Spec): no tick arrives while isRunning is false: the interval is
\* cleared whenever isRunning turns false, so a state that is not running
\* has no interval, and no step from it is a tick.
C16_NoTickWhileStopped ==
    /\ [](~isRunning => interval = <<>>)
    /\ [][~isRunning => ~Tick]_vars

\* The countdown is paused with seconds already counted.
C16_Witness ==
    /\ ~isRunning
    /\ interval = <<>>
    /\ elapsed > 0
    /\ remainingSeconds = durations[mode] * 60 - elapsed
    /\ mode = "focus"

\* C17 (SpecCycle): a break is left for the focus mode only, by the end of
\* its countdown and by a skip alike, and leaving it changes neither of the
\* counters, the category minutes or the event log.
C17_BreakLeadsToFocus ==
    [][mode # "focus" /\ (Tick \/ handleSkip) /\ mode' # mode =>
         /\ mode' = "focus"
         /\ UNCHANGED <<completedFocusCount, totalMinutes, CategoryMinutes,
                        Events>>]_vars

\* The long break after the fourth focus interval of 25 minutes is over.
C17_Witness ==
    /\ mode = "focus"
    /\ completions = 4
    /\ completedFocusCount = 4
    /\ totalMinutes = 100
    /\ Len(Events) = 4

\* C19 (SpecSettings): the tick that takes a running countdown to zero leaves
\* isRunning false, the mode the transition rule gives, remainingSeconds at
\* that mode's duration times 60, and no interval: the next phase waits for
\* start.
C19_FinishStopsAtNextMode ==
    [][Tick /\ remainingSeconds <= 1 =>
         /\ isRunning' = FALSE
         /\ mode' = IF mode # "focus" THEN "focus"
                    ELSE IF (completedFocusCount + 1) % 4 = 0 THEN "long"
                    ELSE "short"
         /\ remainingSeconds' = durations'[mode'] * 60
         /\ interval' = <<>>]_vars

\* The fourth focus interval ended after the long break was set to another
\* length while it ran.
C19_Witness ==
    /\ mode = "long"
    /\ completions = 4
    /\ ~isRunning
    /\ interval = <<>>
    /\ durations["long"] = MaxTyped
    /\ durations["focus"] = 1
    /\ remainingSeconds = MaxTyped * 60
    /\ totalMinutes = 4

\* C18 as claimed (SpecCycle): the breaks entered from the focus mode, by a
\* completion or by a skip, follow the cycle short, short, short, long: the
\* break entered is the long one exactly when three short breaks were
\* entered since the last long one.
C18_BreaksFollowCycle ==
    [][mode = "focus" /\ mode' # "focus" =>
         (mode' = "long" <=> shortBreaks = 3)]_vars

\* C18 as amended (SpecCycle): the break entered from the focus mode is the
\* long one exactly when completedFocusCount + 1 is a multiple of 4; and the
\* short breaks since the last long one stay equal to completedFocusCount
\* mod 4, which is the cycle short, short, short, long, over every step that
\* is not the skip of a focus interval.
C18_BreaksFollowCount ==
    [][/\ mode = "focus" /\ mode' # "focus" =>
            mode' = IF (completedFocusCount + 1) % 4 = 0 THEN "long"
                    ELSE "short"
       /\ shortBreaks = completedFocusCount % 4
              /\ ~(handleSkip /\ mode = "focus") =>
            shortBreaks' = completedFocusCount' % 4]_vars

\* The fourth focus interval was skipped: the long break is entered with
\* three intervals completed.
C18_Witness ==
    /\ mode = "long"
    /\ completedFocusCount = 3
    /\ completions = 3
    /\ shortBreaks = 0

(***************************************************************************)
(* Category page: the daily breakdown.  Time is counted in seconds from    *)
(* the epoch, and a Date is its getTime().  A local day has DayLength      *)
(* seconds, but for the days in ClockSetBack: on those the time zone sets  *)
(* the clock back by one second before the day ends, so the day has one    *)
(* second more and its last second of local time passes twice.             *)
(***************************************************************************)
DayLength == 3
MaxLogged == 3
MaxDaysBack == 1

\* The local days, counted from the day of second 0, that end with the clock
\* set back: one Sunday
ClockSetBack == {3}

\* The second local day d begins with
midnight(d) == d * DayLength + Cardinality({b \in ClockSetBack : b < d})

\* The local day second t is in, counted from the day of second 0
dayOf(t) ==
    LET d == t \div DayLength
    IN  IF midnight(d) <= t THEN d ELSE d - 1

\* getHours, getMinutes, getSeconds: the local time of day of second t
timeOfDay(t) == Min(t - midnight(dayOf(t)), DayLength - 1)

\* d.setHours(0, 0, 0, 0): the local midnight d is in
setHours0(t) == midnight(dayOf(t))

\* d.setDate(d.getDate() + n): n local days later, at the same time of day
setDate(t, n) == midnight(dayOf(t) + n) + timeOfDay(t)

\* start: now moved by dayOffset days, then to midnight
startMs == setHours0(setDate(now, dayOffset))

\* end: start moved by one day
endMs == setDate(startMs, 1)

\* the range test with the end included
inRangeClosed(ts, lo, hi) == ts >= lo /\ ts <= hi

\* ev.ts >= startMs && ev.ts < endMs
inRange(ts, lo, hi) == ts >= lo /\ ts < hi

\* totalsByCat.get(label) ?? 0
getOr0(map, label) == IF label \in DOMAIN map THEN map[label] ELSE 0

\* the loop over events with the bounds lo and hi: totalsByCat after the
\* events evs, from totalsByCat = map
RECURSIVE totalsBetween(_, _, _, _)
totalsBetween(evs, map, lo, hi) ==
    IF evs = <<>> THEN map
    ELSE LET ev == Head(evs)
             minutes == ev.minutes
             label == ev.category
         IN  totalsBetween(Tail(evs),
                 IF inRange(ev.ts, lo, hi)
                 THEN (label :> getOr0(map, label) + minutes) @@ map
                 ELSE map,
                 lo, hi)

\* the loop over events of the render
totalsByCat(evs, map) ==
    LET lo == startMs
        hi == endMs
    IN  totalsBetween(evs, map, lo, hi)

\* dailyTotalsByCategory of a render whose dayOffset is offset
dailyTotals(offset) ==
    LET start == setHours0(setDate(now, offset))
    IN  totalsBetween(Events, <<>>, start, setDate(start, 1))

\* dailyTotalsByCategory of the render
dailyTotalsByCategory == totalsByCat(Events, <<>>)

\* onClick of the previous-day button: setDayOffset((d) => d - 1)
PreviousDay ==
    /\ dayOffset > -MaxDaysBack
    /\ dayOffset' = dayOffset - 1
    /\ UNCHANGED <<durations, labels, session, stats, budget, shortBreaks,
                   quota, crashed>>

\* The updater of the next-day button without Math.min
nextDayUnclamped(d) == d + 1

\* The updater of the next-day button: (d) => Math.min(0, d + 1)
nextDay(d) == Min(0, d + 1)

\* onClick of the next-day button, disabled when dayOffset >= 0:
\* setDayOffset((d) => Math.min(0, d + 1))
NextDay ==
    /\ ~(dayOffset >= 0)
    /\ dayOffset' = nextDay(dayOffset)
    /\ UNCHANGED <<durations, labels, session, stats, budget, shortBreaks,
                   quota, crashed>>

(***************************************************************************)
(* SpecDaily: the category page is opened over a log the timer wrote with *)
(* the focus duration set to a typed value: at most MaxLogged focus        *)
(* intervals under the first two default categories, completed at distinct *)
(* seconds of the last MaxDaysBack + 2 days.  The page is opened in the    *)
(* first or the last second of today, and the user steps through the days. *)
(***************************************************************************)
Today == MaxDaysBack + 1

OpenedAt == {midnight(Today), midnight(Today + 1) - 1}

\* The seconds in S in ascending order
RECURSIVE ascending(_)
ascending(S) ==
    IF S = {} THEN <<>>
    ELSE LET first == CHOOSE t \in S : \A u \in S : t <= u
         IN  <<first>> \o ascending(S \ {first})

\* The logs of focus intervals of f minutes completed at the seconds S
LogsAt(S, f) ==
    LET at == ascending(S)
    IN  {[i \in 1..Len(at) |->
            [ts |-> at[i], category |-> e[at[i]], minutes |-> f]] :
           e \in [S -> {DEFAULT_CATEGORIES[1], DEFAULT_CATEGORIES[2]}]}

\* The storage the timer leaves after writing the log with the focus
\* duration set to f
LoggedStorage(log, f) ==
    [EmptyStorage EXCEPT
        !.durations = DurationsText([DEFAULT_DURATIONS EXCEPT !["focus"] = f]),
        !.category = <<DEFAULT_CATEGORIES[1]>>,
        !.categories = CategoriesText(DEFAULT_CATEGORIES),
        !.streak = NumberText(Len(log)),
        !.total = NumberText(
            loggedMinutes(log, DEFAULT_CATEGORIES[1], 1, Len(log))
            + loggedMinutes(log, DEFAULT_CATEGORIES[2], 1, Len(log))),
        !.categoryMinutes =
            [c \in {log[i].category : i \in 1..Len(log)} |->
                loggedMinutes(log, c, 1, Len(log))],
        !.events = log]

InitDaily ==
    \E t \in OpenedAt :
        \E S \in {T \in SUBSET (0..t) : Cardinality(T) <= MaxLogged} :
            \E f \in 1..MaxTyped :
                \E log \in LogsAt(S, f) :
                    InitAt(LoggedStorage(log, f), Len(log), 0, t)

NextDaily ==
    \/ PreviousDay
    \/ NextDay

SpecDaily == InitDaily /\ [][NextDaily]_vars

\* The events of category c logged on local day d
loggedOn(c, d) ==
    {i \in 1..Len(Events) : Events[i].category = c /\ dayOf(Events[i].ts) = d}

\* The minutes of the events with the indices in I
RECURSIVE minutesOf(_)
minutesOf(I) ==
    IF I = {} THEN 0
    ELSE LET i == CHOOSE j \in I : TRUE
         IN  Events[i].minutes + minutesOf(I \ {i})

\* C20 (SpecDaily): for the day shown, today + dayOffset, the daily totals
\* hold for every category exactly the sum of the minutes of the logged
\* events of that category whose timestamp lies on that local day, from its
\* first second to its last; a category with no event on that day has no
\* total, whatever was logged on the day before or the day after.
C20_DailyTotals ==
    LET shown == dayOf(now) + dayOffset
        logged == {Events[i].category : i \in 1..Len(Events)}
        daily == dailyTotalsByCategory
    IN  /\ startMs = midnight(shown)
        /\ endMs = midnight(shown + 1)
        /\ DOMAIN daily = {c \in logged : loggedOn(c, shown) # {}}
        /\ \A c \in logged :
              getOr0(daily, c) = minutesOf(loggedOn(c, shown))

\* Yesterday is shown; the log has an event in the first second of
\* yesterday, one in its last second under the same category, and one in the
\* first second of today; the total of the category is the first two.
C20_Witness ==
    /\ dayOffset = -1
    /\ Len(Events) = 3
    /\ Events[1].ts = startMs
    /\ Events[2].ts = endMs - 1
    /\ Events[3].ts = endMs
    /\ Events[1].category = Events[2].category
    /\ Events[3].category = Events[1].category
    /\ dailyTotalsByCategory[Events[1].category]
           = Events[1].minutes + Events[2].minutes

(***************************************************************************)
(* Category page: the weekly breakdown                                     *)
(***************************************************************************)
\* Date.prototype.getDay, 0 for Sunday to 6 for Saturday; second 0 is the
\* first second of a Thursday, as the epoch is
getDay(t) == (dayOf(t) + 4) % 7

\* const diffToMonday = (day + 6) % 7
diffToMonday(day) == (day + 6) % 7

\* weekStart: now moved back to Monday, then to midnight
weekStart == setHours0(setDate(now, -diffToMonday(getDay(now))))

\* weekStart.getTime() + 7 * 24 * 60 * 60 * 1000
weekEndMs == weekStart + 7 * DayLength

\* days before the loop: one row per i < 7, dated weekStart + i days
emptyDays ==
    [i \in 0..6 |-> [date |-> setDate(weekStart, i), total |-> 0,
                     breakdown |-> <<>>]]

\* existing.minutes += minutes when breakdown has the label, push otherwise
addToBreakdown(breakdown, label, minutes) ==
    IF \E k \in 1..Len(breakdown) : breakdown[k].label = label
    THEN LET k == CHOOSE j \in 1..Len(breakdown) :
                     /\ breakdown[j].label = label
                     /\ \A h \in 1..(j - 1) : breakdown[h].label # label
         IN  [breakdown EXCEPT ![k].minutes = @ + minutes]
    ELSE Append(breakdown, [label |-> label, minutes |-> minutes])

\* The loop over events of the weekly memo: the rows and the week-wide
\* totals after the events evs, from the rows and totals in acc
RECURSIVE weeklyLoop(_, _)
weeklyLoop(evs, acc) ==
    IF evs = <<>> THEN acc
    ELSE LET ev == Head(evs)
             idx == (ev.ts - weekStart) \div DayLength
             minutes == ev.minutes
             label == ev.category
         IN  weeklyLoop(Tail(evs),
                 IF inRange(ev.ts, weekStart, weekEndMs) /\ idx \in 0..6
                 THEN [days |->
                          [acc.days EXCEPT
                              ![idx].breakdown =
                                  addToBreakdown(@, label, minutes),
                              ![idx].total = @ + minutes],
                       totals |-> (label :> getOr0(acc.totals, label)
                                               + minutes) @@ acc.totals]
                 ELSE acc)

\* breakdown.sort((a, b) => b.minutes - a.minutes): a stable sort, larger
\* minutes first
RECURSIVE sortByMinutes(_)
sortByMinutes(breakdown) ==
    IF breakdown = <<>> THEN <<>>
    ELSE LET k == CHOOSE j \in 1..Len(breakdown) :
                     /\ \A h \in 1..Len(breakdown) :
                            breakdown[h].minutes <= breakdown[j].minutes
                     /\ \A h \in 1..(j - 1) :
                            breakdown[h].minutes < breakdown[j].minutes
             rest == [h \in 1..(Len(breakdown) - 1) |->
                         IF h < k THEN breakdown[h] ELSE breakdown[h + 1]]
         IN  <<breakdown[k]>> \o sortByMinutes(rest)

\* The weekly memo of the render
weekly ==
    LET acc == weeklyLoop(Events, [days |-> emptyDays, totals |-> <<>>])
    IN  [weekDays |-> [i \in 0..6 |->
                          [acc.days[i] EXCEPT
                              !.breakdown = sortByMinutes(@)]],
         weeklyTotalsByCategory |-> acc.totals]

weekDays == weekly.weekDays
weeklyTotalsByCategory == weekly.weeklyTotalsByCategory

(***************************************************************************)
(* SpecWeekly: the category page is opened on each day of a week, in the   *)
(* first or the last second of the day, over a log the timer wrote with    *)
(* the focus duration set to a typed value: at most MaxLogged focus        *)
(* intervals under the first two default categories, completed at distinct *)
(* seconds of yesterday and today.  The user steps through the days of the *)
(* daily view, which the weekly memo does not depend on.                   *)
(***************************************************************************)
OpenedOn == 1..7

InitWeekly ==
    \E d \in OpenedOn :
        \E t \in {midnight(d), midnight(d + 1) - 1} :
            \E S \in {T \in SUBSET (midnight(d - 1)..t) :
                         Cardinality(T) <= MaxLogged} :
                \E f \in 1..MaxTyped :
                    \E log \in LogsAt(S, f) :
                        InitAt(LoggedStorage(log, f), Len(log), 0, t)

NextWeekly ==
    \/ PreviousDay
    \/ NextDay

SpecWeekly == InitWeekly /\ [][NextWeekly]_vars

\* The local day the current week starts on: the last Monday up to today
monday == CHOOSE d \in (dayOf(now) - 6)..dayOf(now) : getDay(midnight(d)) = 1

\* The minutes of category c in a breakdown, 0 when it has no entry
breakdownMinutes(breakdown, c) ==
    LET I == {k \in 1..Len(breakdown) : breakdown[k].label = c}
    IN  IF I = {} THEN 0 ELSE breakdown[CHOOSE k \in I : TRUE].minutes

\* The events of category c logged on the local days D
loggedIn(c, D) == UNION {loggedOn(c, d) : d \in D}

\* C21 (SpecWeekly): the weekly rows are the seven days Monday to Sunday of
\* the current week; each row holds, per category, the minutes of the
\* events logged on its day, once, and their sum as its total; the
\* week-wide totals hold, per category, the minutes of the events logged on
\* the seven days; events logged outside the week are in neither.
C21_WeeklyTotals ==
    LET logged == {Events[i].category : i \in 1..Len(Events)}
        first == monday
        rows == weekDays
        totals == weeklyTotalsByCategory
    IN  /\ DOMAIN rows = 0..6
        /\ \A i \in 0..6 :
              LET row == rows[i]
              IN  /\ row.date = midnight(first + i)
                  /\ getDay(row.date) = (i + 1) % 7
                  /\ \A k, h \in 1..Len(row.breakdown) :
                        row.breakdown[k].label = row.breakdown[h].label
                            => k = h
                  /\ {row.breakdown[k].label : k \in 1..Len(row.breakdown)}
                         = {c \in logged : loggedOn(c, first + i) # {}}
                  /\ \A c \in logged :
                        breakdownMinutes(row.breakdown, c)
                            = minutesOf(loggedOn(c, first + i))
                  /\ row.total = minutesOf(UNION {loggedOn(c, first + i) :
                                                     c \in logged})
        /\ DOMAIN totals
               = {c \in logged : loggedIn(c, first..(first + 6)) # {}}
        /\ \A c \in logged :
              getOr0(totals, c)
                  = minutesOf(loggedIn(c, first..(first + 6)))

\* C22 (SpecStored): remainingSeconds is never below 0, and every step
\* that changes it either takes exactly 1 off while the timer is running or
\* sets it to the full duration, durations[mode] * 60, of the durations and
\* the mode after the step; so it never goes up except to a full duration.
C22_CountdownSteps ==
    /\ [](remainingSeconds >= 0)
    /\ [][remainingSeconds' # remainingSeconds =>
             \/ /\ isRunning
                /\ interval # <<>>
                /\ remainingSeconds' = remainingSeconds - 1
             \/ remainingSeconds' = durations'[mode'] * SecondsPerMinute]_vars

\* C23 (Spec): a reload discards the session and keeps what is persisted:
\* after it the mode is focus, the timer is stopped with no interval set and
\* the countdown is the full focus duration, while the durations, the
\* selected category, the categories, both counters, the CategoryMinutes map
\* and the event log are what they were before it.
C23_ReloadKeepsPersisted ==
    [][Reload =>
         /\ mode' = "focus"
         /\ ~isRunning'
         /\ interval' = <<>>
         /\ remainingSeconds' = durations["focus"] * SecondsPerMinute
         /\ durations' = durations
         /\ selectedCategory' = selectedCategory
         /\ categories' = categories
         /\ completedFocusCount' = completedFocusCount
         /\ totalMinutes' = totalMinutes
         /\ CategoryMinutes' = CategoryMinutes
         /\ Events' = Events
         /\ nextMode(mode', completedFocusCount')
                = nextMode("focus", completedFocusCount)]_vars

\* The state a reload leaves when it comes during the third break, with the
\* created label "A" selected: the focus mode, stopped, at the full focus
\* duration, with three intervals counted and logged.
C23_Witness ==
    /\ mode = "focus"
    /\ ~isRunning
    /\ interval = <<>>
    /\ remainingSeconds = durations["focus"] * SecondsPerMinute
    /\ completedFocusCount = 3
    /\ totalMinutes = 3
    /\ Len(Events) = 3
    /\ selectedCategory = <<"A">>
    /\ categories = DEFAULT_CATEGORIES \o << <<"A">> >>
    /\ shortBreaks = 3
    /\ nextMode(mode, completedFocusCount) = "long"

(***************************************************************************)
(* SpecStored: the session engine over values found in storage.  The page  *)
(* is loaded on a first visit's counters and map, or after two focus        *)
(* intervals of one minute, on storage whose                               *)
(* "fp:durations" item gives the focus mode one minute, or one minute      *)
(* below zero, and whose "fp:category" item is Genel or a single blank;    *)
(* the user starts, pauses, resets and skips.                              *)
(***************************************************************************)
\* Focus intervals a behaviour of SpecStored may complete.
MaxStored == 2

StoredFocus == {-MinMinutes, MinMinutes}

StoredSelected == {Genel, <<" ">>}

StoredIntervals == {0, 2}

InitStored ==
    \E f \in StoredFocus, label \in StoredSelected, k \in StoredIntervals :
        InitFrom([HistoryStorage(OneMinute, k) EXCEPT
                     !.durations = DurationsText([focus |-> f]),
                     !.category = <<label>>],
                 k, MaxStored)

NextStored ==
    \/ handleStartPause
    \/ handleReset
    \/ handleSkip
    \/ Tick

SpecStored == InitStored /\ [][NextStored]_vars

\* C24 (SpecStored): no entry of CategoryMinutes is negative, no step takes
\* an entry away or lowers it, and the map changes only in the step of a
\* focus countdown reaching zero, which appends the event.
C24_CategoryMinutesGrows ==
    /\ [](\A c \in DOMAIN CategoryMinutes : CategoryMinutes[c] >= 0)
    /\ [][\A c \in DOMAIN CategoryMinutes :
             /\ c \in DOMAIN CategoryMinutes'
             /\ CategoryMinutes'[c] >= CategoryMinutes[c]]_vars
    /\ [][CategoryMinutes' # CategoryMinutes =>
             /\ FocusReachesZero
             /\ Events' # Events
             /\ Events'[Len(Events')].ts = now']_vars

\* C25 (SpecLabels): in every state no two members of the category list
\* are equal after trimming and lower-casing for the Turkish locale,
\* whatever list was stored and whatever labels are created and selected.
C25_CategoriesUniqueByKey ==
    \A i, j \in 1..Len(categories) :
        categoryKey(categories[i]) = categoryKey(categories[j]) => i = j

\* The stored list was "genel", dotless i: the load dropped "genel", which
\* has the key of the default "Genel", and kept the dotless i; the label
\* "A" was created after it.
C25_Witness ==
    /\ Len(categories) = Len(DEFAULT_CATEGORIES) + 2
    /\ SubSeq(categories, 1, Len(DEFAULT_CATEGORIES)) = DEFAULT_CATEGORIES
    /\ categories[Len(DEFAULT_CATEGORIES) + 1] = <<"i_dotless">>
    /\ categories[Len(DEFAULT_CATEGORIES) + 2] = <<"A">>
    /\ selectedCategory = <<"A">>

(***************************************************************************)
(* Category page: the colour of a category                                 *)
(***************************************************************************)
palette == <<"var(--chart-1)", "var(--chart-2)", "var(--chart-3)",
             "var(--chart-4)", "var(--chart-5)">>

\* The letters of the labels in the order of the Turkish alphabet
TrAlphabet ==
    <<" ", "a", "b", "c_cedilla", "e", "g", "i_dotless", "i", "k", "l", "m",
      "n", "o", "s_cedilla", "u", "y", "z">>

\* The place of a character in the collation, upper and lower case alike
collationRank(ch) ==
    CHOOSE k \in 1..Len(TrAlphabet) :
        TrAlphabet[k] = toLocaleLowerCaseTrChar(ch)

\* a.localeCompare(b, "tr") < 0
RECURSIVE localeCompareLess(_, _)
localeCompareLess(a, b) ==
    IF b = <<>> THEN FALSE
    ELSE IF a = <<>> THEN TRUE
    ELSE IF collationRank(Head(a)) # collationRank(Head(b))
         THEN collationRank(Head(a)) < collationRank(Head(b))
         ELSE localeCompareLess(Tail(a), Tail(b))

\* Array.from(set).sort((a, b) => a.localeCompare(b, "tr"))
RECURSIVE sortTr(_)
sortTr(S) ==
    IF S = {} THEN <<>>
    ELSE LET least == CHOOSE a \in S :
                          \A b \in S \ {a} : localeCompareLess(a, b)
         IN  <<least>> \o sortTr(S \ {least})

\* allCategories: the keys of the map and the categories of the events,
\* blank labels left out, sorted
allCategories ==
    sortTr({c \in DOMAIN CategoryMinutes
                   \cup {Events[i].category : i \in 1..Len(Events)} :
               trim(c) # <<>>})

\* categoryColor(label): map.get(label) ?? palette[0], the map giving the
\* label at index idx of allCategories the colour palette[idx % 5]
categoryColor(label) ==
    IF \E k \in 1..Len(allCategories) : allCategories[k] = label
    THEN LET idx == (CHOOSE k \in 1..Len(allCategories) :
                        allCategories[k] = label) - 1
         IN  palette[(idx % Len(palette)) + 1]
    ELSE palette[1]

\* The categories of the log in the order of their first event
RECURSIVE firstSeen(_, _)
firstSeen(evs, seen) ==
    IF evs = <<>> THEN <<>>
    ELSE IF Head(evs).category \in seen
         THEN firstSeen(Tail(evs), seen)
         ELSE <<Head(evs).category>> \o
              firstSeen(Tail(evs), seen \cup {Head(evs).category})

\* C26 (SpecDaily): the k-th category in the order of first recorded
\* activity has the colour palette[k mod 5], counting k from 0; and no step
\* on the page changes the colour of a category.
C26_ColourByFirstSeen ==
    /\ [](LET seen == firstSeen(Events, {})
          IN  \A k \in 1..Len(seen) :
                 categoryColor(seen[k]) = palette[((k - 1) % 5) + 1])
    /\ [][\A c \in DOMAIN CategoryMinutes :
             categoryColor(c)' = categoryColor(c)]_vars

\* C27 (Spec): the event appended when a focus countdown reaches zero, and
\* the entry of CategoryMinutes that is credited, carry the category that
\* is selected when the countdown reaches zero.
C27_CategoryAtZero ==
    [][FocusReachesZero =>
         LET label == trim(selectedCategory)
         IN  /\ Events'[Len(Events')].category = label
             /\ Cached(label)' = Cached(label) + durations["focus"]]_vars

\* C28 (SpecSettings): the minutes added to totalMinutes and to
\* CategoryMinutes and stored in the event when a focus countdown reaches
\* zero are durations.focus as it is set when the countdown reaches zero.
C28_MinutesAtZero ==
    [][FocusReachesZero =>
         LET label == trim(selectedCategory)
         IN  /\ totalMinutes' = totalMinutes + durations["focus"]
             /\ Events'[Len(Events')].minutes = durations["focus"]
             /\ Cached(label)' = Cached(label) + durations["focus"]]_vars

C30_OneTickSource ==
    /\ Len(interval) <= 1
    /\ isRunning <=> interval # <<>>

\* One second of the break after the first focus interval has gone: the
\* interval that counted the focus interval down was cleared by its last
\* callback, and the one set by the start in the break is the only one.
C30_Witness ==
    /\ isRunning
    /\ Len(interval) = 1
    /\ mode = "short"
    /\ completions = 1
    /\ interval[1].mode = "short"
    /\ elapsed = 1

\* C31 (SpecSettings): a skip, in any mode and whether the timer is running
\* or not, stops the timer, leaves completedFocusCount as it is, moves to
\* the focus mode from a break and from the focus mode to the long break
\* when completedFocusCount + 1 is a multiple of 4 and to the short break
\* otherwise, and sets remainingSeconds to the full duration of that mode.
C31_SkipMovesOn ==
    [][handleSkip =>
         /\ ~isRunning'
         /\ completedFocusCount' = completedFocusCount
         /\ mode' = IF mode # "focus" THEN "focus"
                    ELSE IF (completedFocusCount + 1) % 4 = 0 THEN "long"
                    ELSE "short"
         /\ durations' = durations
         /\ remainingSeconds' = durations[mode'] * 60]_vars

\* The fourth focus interval was skipped after the long break was set to
\* the typed length: the long break is entered, stopped, at its full
\* length, with three intervals counted.
C31_Witness ==
    /\ mode = "long"
    /\ completedFocusCount = 3
    /\ completions = 3
    /\ ~isRunning
    /\ durations["long"] = MaxTyped
    /\ remainingSeconds = MaxTyped * 60
    /\ elapsed = 0

\* C32 (SpecStored): every event of the log has a category that is not the
\* empty string and a number of minutes that is a positive integer, also
\* after a load of stored durations and of a stored selected category.
C32_EventsWellFormed ==
    \A i \in 1..Len(Events) :
        /\ Events[i].category # <<>>
        /\ Events[i].minutes \in Nat \ {0}

\* The sum of the values of a map from labels to minutes
RECURSIVE sumOfMinutes(_)
sumOfMinutes(map) ==
    IF DOMAIN map = {} THEN 0
    ELSE LET c == CHOOSE l \in DOMAIN map : TRUE
         IN  map[c] + sumOfMinutes([l \in DOMAIN map \ {c} |-> map[l]])

\* The counters are zero and CategoryMinutes is empty.
Zeroed ==
    /\ completedFocusCount = 0
    /\ totalMinutes = 0
    /\ CategoryMinutes = <<>>

\* C33 (SpecStored): in a behaviour that starts with the counters at zero
\* and CategoryMinutes empty, totalMinutes is in every state the sum of the
\* values of CategoryMinutes; and every step that appends an event adds the
\* minutes of that event to totalMinutes and to the entry of CategoryMinutes
\* for the category of that event.
C33_TotalIsSumOfCategories ==
    /\ Zeroed => [](totalMinutes = sumOfMinutes(CategoryMinutes))
    /\ [][Events' # Events =>
            LET event == Events'[Len(Events')]
            IN  /\ totalMinutes' = totalMinutes + event.minutes
                /\ getOr0(CategoryMinutes', event.category)
                     = getOr0(CategoryMinutes, event.category) + event.minutes]_vars

\* C34 (SpecSettings): an edit of a duration leaves isRunning, mode,
\* completedFocusCount, totalMinutes, CategoryMinutes and the event log as
\* they are; made while the timer runs, it leaves the timer running in the
\* same mode with its tick source, and the countdown goes on from the
\* recomputed remainingSeconds, the full duration of the mode after the edit.
C34_EditFrame ==
    /\ [][SetDuration =>
            UNCHANGED <<isRunning, mode, completedFocusCount, totalMinutes,
                        CategoryMinutes, Events>>]_vars
    /\ [][SetDuration /\ isRunning =>
            /\ isRunning'
            /\ mode' = mode
            /\ interval' = interval
            /\ interval' # <<>>
            /\ remainingSeconds' = durations'[mode] * 60
            /\ ~lastSecond(remainingSeconds')]_vars
    /\ [][Tick /\ isRunning /\ elapsed = 0 /\ interval[1].durations # durations =>
            /\ isRunning'
            /\ mode' = mode
            /\ remainingSeconds' = durations[mode] * 60 - 1]_vars

\* The timer was started, a duration of the running mode was then changed,
\* and one tick has counted down from the full new duration.
C34_Witness ==
    /\ isRunning
    /\ Len(interval) = 1
    /\ interval[1].mode = mode
    /\ interval[1].durations[mode] # durations[mode]
    /\ elapsed = 1
    /\ remainingSeconds = durations[mode] * 60 - 1

\* Every duration is within the limits of the inputs.
DurationsInLimits == \A m \in Modes : durations[m] \in MinMinutes..MaxMinutes

\* C35 (SpecSettings): in every state whose durations are all within
\* [1, 180], remainingSeconds is at least 1 and at most the full duration of
\* the current mode, durations[mode] * 60: the countdown never rests at 0
\* and never shows more than the configured length.
C35_CountdownInLimits ==
    DurationsInLimits =>
        /\ 1 <= remainingSeconds
        /\ remainingSeconds <= durations[mode] * 60

\* A short break of one minute has been counted down to its last second.
C35_Witness ==
    /\ DurationsInLimits
    /\ mode = "short"
    /\ isRunning
    /\ durations["short"] = MinMinutes
    /\ elapsed = 59
    /\ remainingSeconds = 1

(***************************************************************************)
(* SpecTicking: a running timer left alone.  The page is loaded as in      *)
(* SpecSettings; the user edits the durations, skips and starts only while *)
(* the timer is stopped, and once it runs nothing happens but the ticks of *)
(* the interval.  setInterval keeps calling the callback until the         *)
(* interval is cleared, which is weak fairness of Tick.                    *)
(***************************************************************************)
NextTicking ==
    \/ ~isRunning /\ handleStartPause
    \/ ~isRunning /\ handleSkip
    \/ ~isRunning /\ SetDuration
    \/ Tick

SpecTicking == InitSettings /\ [][NextTicking]_vars /\ WF_vars(Tick)

\* C36 (SpecTicking): a timer that runs in a mode and is left to its ticks
\* eventually is stopped in another mode; and the step that stops it moves
\* to the next mode: the focus mode after a break, and after a focus
\* interval the long break when the count of completed focus intervals has
\* become a multiple of 4 and the short break otherwise.
C36_PhaseCompletes ==
    /\ \A m \in Modes : (isRunning /\ mode = m) ~> (~isRunning /\ mode # m)
    /\ [][isRunning /\ ~isRunning' =>
            mode' = IF mode # "focus" THEN "focus"
                    ELSE IF completedFocusCount' % 4 = 0 THEN "long"
                    ELSE "short"]_vars

\* A focus interval of the largest typed length has run out, the fourth of
\* its cycle, and the timer is stopped at the long break.
C36_Witness ==
    /\ ~isRunning
    /\ interval = <<>>
    /\ mode = "long"
    /\ completedFocusCount = 4
    /\ durations["focus"] = MaxTyped
    /\ Events[Len(Events)].minutes = MaxTyped
    /\ elapsed = 0

\* C37 (SpecWeekly): for each of the seven days of the current week the
\* row of the weekly view has the total and, category by category, the
\* minutes that the daily view computes for the day offset of that day; and
\* the totals of the seven rows add up to the sum of the week-wide totals
\* of the categories.
C37_WeeklyAgreesWithDaily ==
    LET rows == weekDays
        totals == weeklyTotalsByCategory
        today == dayOf(now)
        first == monday
    IN  /\ \A i \in 0..6 :
              LET row == rows[i]
                  daily == dailyTotals(first + i - today)
              IN  /\ row.total = sumOfMinutes(daily)
                  /\ {row.breakdown[k].label : k \in 1..Len(row.breakdown)}
                         = DOMAIN daily
                  /\ \A c \in DOMAIN daily :
                        breakdownMinutes(row.breakdown, c) = daily[c]
        /\ rows[0].total + rows[1].total + rows[2].total + rows[3].total
               + rows[4].total + rows[5].total + rows[6].total
               = sumOfMinutes(totals)

\* C38 (SpecDaily): after any sequence of previous-day and next-day steps
\* from 0 the day offset is not greater than 0, and the next-day updater
\* applied at offset 0 gives 0.
C38_NoFutureDay ==
    /\ dayOffset <= 0
    /\ nextDay(dayOffset) <= 0
    /\ nextDay(0) = 0

\* The user has stepped back as far as the model goes; the next-day button
\* is enabled and leads one day forward, and the day shown is that many
\* days before today.
C38_Witness ==
    /\ dayOffset = -MaxDaysBack
    /\ nextDay(dayOffset) = dayOffset + 1
    /\ ~(dayOffset >= 0)
    /\ startMs = midnight(dayOf(now) - MaxDaysBack)

====
